---- MODULE Spec2Model ----
(***************************************************************************)
(* Model of visualization.py: four chart builders over pandas DataFrames.  *)
(*                                                                         *)
(* A DataFrame is [columns |-> set of column names, rows |-> sequence of   *)
(* rows], a row being a function from the frame's columns to cell values.  *)
(* A text date is a sequence of characters, a Timestamp a (year, month,    *)
(* day) record, a monthly Period a (year, month) record.  A missing value  *)
(* (NaN) produced by the outer merge is the empty sequence, a present      *)
(* value v the one-element sequence <<v>>.                                 *)
(*                                                                         *)
(* Transaction and budget records follow the data model of the module:     *)
(* every transaction carries a date, a signed integer amount and a text    *)
(* category; budget categories are unique within one budget table.         *)
(***************************************************************************)
EXTENDS Integers, Sequences, FiniteSets, TLC

VARIABLES
    transactions_df,   \* the caller's transaction DataFrame
    budget_df,         \* the caller's budget DataFrame
    fig                \* outcome of the last call: the figure's data or the error raised

vars == <<transactions_df, budget_df, fig>>

---------------------------------------------------------------------------
(* Bounds of the model *)

MaxRows == 2
MaxBudgetRows == 2
MaxGoalUnits == 4
MaxSavingsUnits == 6

---------------------------------------------------------------------------
(* Input alphabets *)

CategoryLabels == <<"Food", "Rent">>

Categories == {CategoryLabels[i] : i \in 1..Len(CategoryLabels)}

Amounts == {0 - 50, 0 - 30, 0, 2000}

BudgetAmounts == {50, 100}

StrDate(text) == [kind |-> "str", text |-> text]

DateTexts ==
    { <<"2","0","2","4","-","0","1","-","0","5">>,
      <<"2","0","2","4","-","0","1","-","1","0">>,
      <<"2","0","2","4","-","0","2","-","0","1">> }

TransactionColumns == {"date", "amount", "category"}

BudgetColumns == {"category", "amount"}

---------------------------------------------------------------------------
(* Generic helpers *)

Abs(x) == IF x < 0 THEN 0 - x ELSE x

RECURSIVE SumSeq(_)
SumSeq(s) == IF s = <<>> THEN 0 ELSE Head(s) + SumSeq(Tail(s))

Range(s) == {s[i] : i \in 1..Len(s)}

\* The elements of the sequence s at which the boolean sequence mask holds.
RECURSIVE Masked(_, _)
Masked(s, mask) ==
    IF s = <<>> THEN <<>>
    ELSE (IF Head(mask) THEN <<Head(s)>> ELSE <<>>)
         \o Masked(Tail(s), Tail(mask))

\* The distinct elements of s in order of first appearance.
RECURSIVE Unique(_)
Unique(s) ==
    IF s = <<>> THEN <<>>
    ELSE LET rest == Tail(s)
         IN  <<Head(s)>>
             \o Unique(Masked(rest, [i \in 1..Len(rest) |-> rest[i] # Head(s)]))

---------------------------------------------------------------------------
(* Dates *)

DigitValue(ch) ==
    CASE ch = "0" -> 0 [] ch = "1" -> 1 [] ch = "2" -> 2 [] ch = "3" -> 3
      [] ch = "4" -> 4 [] ch = "5" -> 5 [] ch = "6" -> 6 [] ch = "7" -> 7
      [] ch = "8" -> 8 [] ch = "9" -> 9

DigitChar(n) ==
    CASE n = 0 -> "0" [] n = 1 -> "1" [] n = 2 -> "2" [] n = 3 -> "3"
      [] n = 4 -> "4" [] n = 5 -> "5" [] n = 6 -> "6" [] n = 7 -> "7"
      [] n = 8 -> "8" [] n = 9 -> "9"

RECURSIVE ParseInt(_)
ParseInt(chars) ==
    IF chars = <<>> THEN 0
    ELSE ParseInt(SubSeq(chars, 1, Len(chars) - 1)) * 10
         + DigitValue(chars[Len(chars)])

\* pd.to_datetime on one cell: ISO text "YYYY-MM-DD" is parsed, a Timestamp
\* is returned as it is.
to_datetime(cell) ==
    IF cell.kind = "Timestamp" THEN cell
    ELSE [kind  |-> "Timestamp",
          year  |-> ParseInt(SubSeq(cell.text, 1, 4)),
          month |-> ParseInt(SubSeq(cell.text, 6, 7)),
          day   |-> ParseInt(SubSeq(cell.text, 9, 10))]

\* Mutant: the period is taken at yearly granularity.
to_period_Y(ts) == [year |-> ts.year, month |-> 1]

\* Series.dt.to_period('M') on one Timestamp.
to_period_M(ts) == [year |-> ts.year, month |-> ts.month]

\* Period.astype(str): "YYYY-MM".
PeriodStr(p) ==
    << DigitChar(p.year \div 1000), DigitChar((p.year \div 100) % 10),
       DigitChar((p.year \div 10) % 10), DigitChar(p.year % 10), "-",
       DigitChar(p.month \div 10), DigitChar(p.month % 10) >>

PeriodLess(p, q) ==
    p.year < q.year \/ (p.year = q.year /\ p.month < q.month)

CategoryRank(c) == CHOOSE i \in 1..Len(CategoryLabels) : CategoryLabels[i] = c

CategoryLess(c, d) == CategoryRank(c) < CategoryRank(d)

\* Group keys in sorted order, as groupby and the outer merge emit them.
SortedCategories(S) ==
    [i \in 1..Cardinality(S) |->
        CHOOSE x \in S : Cardinality({y \in S : CategoryLess(y, x)}) = i - 1]

SortedPeriods(S) ==
    [i \in 1..Cardinality(S) |->
        CHOOSE x \in S : Cardinality({y \in S : PeriodLess(y, x)}) = i - 1]

---------------------------------------------------------------------------
(* DataFrame operations *)

\* df[col] raises KeyError when the frame has no such column.
HasColumn(df, col) == col \in df.columns

\* The column col of the frame, one value per row.
Column(df, col) == [i \in 1..Len(df.rows) |-> df.rows[i][col]]

\* df[mask].copy(): a new frame holding the rows at which the mask holds.
FilterRows(df, mask) ==
    [columns |-> df.columns, rows |-> Masked(df.rows, mask)]

\* df[col] = values (the column is added when absent).
AssignColumn(df, col, values) ==
    [columns |-> df.columns \cup {col},
     rows    |-> [i \in 1..Len(df.rows) |->
                     [c \in df.columns \cup {col} |->
                         IF c = col THEN values[i] ELSE df.rows[i][c]]]]

\* Series.abs()
AbsOf(values) == [i \in 1..Len(values) |-> Abs(values[i])]

\* Mutant: the sign filter keeps zero amounts (amount <= 0).
ExpensesOfNonPositive(df) ==
    LET amount == Column(df, "amount")
        kept   == FilterRows(df, [i \in 1..Len(amount) |-> amount[i] <= 0])
    IN  AssignColumn(kept, "amount", AbsOf(Column(kept, "amount")))

\* expenses_df = df[df['amount'] < 0].copy(); expenses_df['amount'] = abs
ExpensesOf(df) ==
    LET amount == Column(df, "amount")
        kept   == FilterRows(df, [i \in 1..Len(amount) |-> amount[i] < 0])
    IN  AssignColumn(kept, "amount", AbsOf(Column(kept, "amount")))

\* income_df = df[df['amount'] > 0].copy()
IncomeOf(df) ==
    LET amount == Column(df, "amount")
    IN  FilterRows(df, [i \in 1..Len(amount) |-> amount[i] > 0])

\* Sum of column 'amount' over the rows whose group key (keys[i] for row i)
\* is k.
GroupTotal(df, keys, k) ==
    SumSeq(Masked(Column(df, "amount"),
                  [i \in 1..Len(keys) |-> keys[i] = k]))

\* Largest amount among the rows whose group key is k.
GroupMax(df, keys, k) ==
    LET group == Range(Masked(Column(df, "amount"),
                              [i \in 1..Len(keys) |-> keys[i] = k]))
    IN  CHOOSE a \in group : \A b \in group : b <= a

\* Mutant: the groups are aggregated with max() instead of sum().
GroupByCategoryMax(df) ==
    LET keys   == Column(df, "category")
        sorted == SortedCategories(Range(keys))
    IN  [i \in 1..Len(sorted) |->
            [category |-> sorted[i],
             amount   |-> GroupMax(df, keys, sorted[i])]]

\* df.groupby('category')['amount'].sum().reset_index(): one row per
\* category that occurs, in sorted order of the category.
GroupByCategory(df) ==
    LET keys   == Column(df, "category")
        sorted == SortedCategories(Range(keys))
    IN  [i \in 1..Len(sorted) |->
            [category |-> sorted[i],
             amount   |-> GroupTotal(df, keys, sorted[i])]]

Raised(fn, error) == [fn |-> fn, args |-> <<>>, raised |-> error, data |-> <<>>]

Figure(fn, data) == [fn |-> fn, args |-> <<>>, raised |-> "none", data |-> data]

---------------------------------------------------------------------------
(* create_spending_pie_chart *)

\* Mutant: a missing column yields an empty chart instead of an error.
create_spending_pie_chart_lenient(df) ==
    IF ~HasColumn(df, "amount") \/ ~HasColumn(df, "category")
    THEN Figure("pie", <<>>)
    ELSE Figure("pie", GroupByCategory(ExpensesOf(df)))

create_spending_pie_chart(df) ==
    IF ~HasColumn(df, "amount") THEN Raised("pie", "KeyError")
    ELSE LET expenses_df == ExpensesOf(df) IN
         IF ~HasColumn(expenses_df, "category") THEN Raised("pie", "KeyError")
         ELSE Figure("pie", GroupByCategory(expenses_df))

---------------------------------------------------------------------------
(* create_spending_trend_chart *)

\* transactions_df['date'] = pd.to_datetime(transactions_df['date'])
DatesNormalized(df) ==
    LET date == Column(df, "date")
    IN  AssignColumn(df, "date", [i \in 1..Len(date) |-> to_datetime(date[i])])

\* transactions_df['month'] = transactions_df['date'].dt.to_period('M')
WithMonth(df) ==
    LET date == Column(df, "date")
    IN  AssignColumn(df, "month", [i \in 1..Len(date) |-> to_period_M(date[i])])

\* Mutant: the absolute amounts are written to the caller's frame (no copy).
TrendInPlaceNoCopy(df) ==
    IF ~HasColumn(df, "date") THEN df
    ELSE IF ~HasColumn(df, "amount") THEN WithMonth(DatesNormalized(df))
    ELSE AssignColumn(WithMonth(DatesNormalized(df)), "amount",
                      AbsOf(Column(df, "amount")))

\* The caller's frame as the call leaves it: the date column is converted
\* and the month column added in place; the absolute amounts are written to
\* a copy.  Without a date column the lookup raises before any assignment.
TrendInPlace(df) ==
    IF ~HasColumn(df, "date") THEN df ELSE WithMonth(DatesNormalized(df))

MonthCategoryLess(a, b) ==
    \/ PeriodLess(a.month, b.month)
    \/ a.month = b.month /\ CategoryLess(a.category, b.category)

SortedMonthCategories(S) ==
    [i \in 1..Cardinality(S) |->
        CHOOSE x \in S : Cardinality({y \in S : MonthCategoryLess(y, x)}) = i - 1]

\* expenses_df.groupby(['month', 'category'])['amount'].sum().reset_index()
\* with month_str = month.astype(str)
MonthlyExpenses(expenses_df) ==
    LET keys   == [i \in 1..Len(expenses_df.rows) |->
                      [month    |-> expenses_df.rows[i].month,
                       category |-> expenses_df.rows[i].category]]
        sorted == SortedMonthCategories(Range(keys))
    IN  [i \in 1..Len(sorted) |->
            [month     |-> sorted[i].month,
             category  |-> sorted[i].category,
             amount    |-> GroupTotal(expenses_df, keys, sorted[i]),
             month_str |-> PeriodStr(sorted[i].month)]]

\* income_df.groupby('month')['amount'].sum().reset_index()
\* with month_str = month.astype(str)
MonthlyIncome(income_df) ==
    LET keys   == Column(income_df, "month")
        sorted == SortedPeriods(Range(keys))
    IN  [i \in 1..Len(sorted) |->
            [month     |-> sorted[i],
             amount    |-> GroupTotal(income_df, keys, sorted[i]),
             month_str |-> PeriodStr(sorted[i])]]

\* The x and y of one Scatter trace.
Points(rows) ==
    [i \in 1..Len(rows) |-> [x |-> rows[i].month_str, y |-> rows[i].amount]]

\* monthly_expenses[monthly_expenses['category'] == category]
CategoryData(monthly_expenses, category) ==
    Masked(monthly_expenses,
           [i \in 1..Len(monthly_expenses) |->
               monthly_expenses[i].category = category])

\* One Scatter trace named Income, then one per category in order of first
\* appearance in monthly_expenses.
TrendTraces(monthly_income, monthly_expenses) ==
    LET names == Unique([i \in 1..Len(monthly_expenses) |->
                            monthly_expenses[i].category])
    IN  [income   |-> Points(monthly_income),
         expenses |-> [i \in 1..Len(names) |->
                          [name   |-> names[i],
                           points |-> Points(CategoryData(monthly_expenses,
                                                          names[i]))]]]

TrendFigure(df) ==
    IF ~HasColumn(df, "date") THEN Raised("trend", "KeyError")
    ELSE LET frame == WithMonth(DatesNormalized(df)) IN
         IF ~HasColumn(frame, "amount") THEN Raised("trend", "KeyError")
         ELSE LET income_df   == IncomeOf(frame)
                  expenses_df == ExpensesOf(frame)
              IN  IF ~HasColumn(expenses_df, "category")
                  THEN Raised("trend", "KeyError")
                  ELSE Figure("trend",
                              TrendTraces(MonthlyIncome(income_df),
                                          MonthlyExpenses(expenses_df)))

\* The call's two effects: the caller's frame afterwards, and the outcome.
create_spending_trend_chart(df) ==
    [frame |-> TrendInPlace(df), fig |-> TrendFigure(df)]

---------------------------------------------------------------------------
(* create_budget_comparison_chart *)

RECURSIVE Concat(_)
Concat(seqs) == IF seqs = <<>> THEN <<>> ELSE Head(seqs) \o Concat(Tail(seqs))

\* The rows of a table whose category is k.
Matching(rows, k) ==
    Masked(rows, [i \in 1..Len(rows) |-> rows[i].category = k])

\* The amounts of the matching rows, or one NaN when nothing matches.
AmountsOrNaN(matches) ==
    IF matches = <<>> THEN << <<>> >>
    ELSE [i \in 1..Len(matches) |-> <<matches[i].amount>>]

\* The merged rows of one key: every pair of a left and a right match.
MergedRowsOf(left, right, k) ==
    LET xs == AmountsOrNaN(Matching(left, k))
        ys == AmountsOrNaN(Matching(right, k))
    IN  Concat([i \in 1..Len(xs) |->
                   [j \in 1..Len(ys) |->
                       [category |-> k, amount_x |-> xs[i], amount_y |-> ys[j]]]])

\* Mutant: how='left', the budget-only categories are dropped.
MergeLeft(left, right) ==
    LET keys == SortedCategories({r.category : r \in Range(left)})
    IN  Concat([i \in 1..Len(keys) |-> MergedRowsOf(left, right, keys[i])])

\* pd.merge(actual_spending, budget_df, on='category', how='outer'): for
\* every key of either side, in sorted order, the pairs of matching rows; a
\* side without a match contributes NaN.
MergeOuter(left, right) ==
    LET keys == SortedCategories({r.category :
                                     r \in Range(left) \cup Range(right)})
    IN  Concat([i \in 1..Len(keys) |-> MergedRowsOf(left, right, keys[i])])

\* .fillna(0) on one cell
FillNa(cell) == IF cell = <<>> THEN 0 ELSE cell[1]

\* Mutant: the comparison is strict (x > 0).
StatusOfStrict(x) == IF x > 0 THEN "Under Budget" ELSE "Over Budget"

\* lambda x: 'Under Budget' if x >= 0 else 'Over Budget'
StatusOf(x) == IF x >= 0 THEN "Under Budget" ELSE "Over Budget"

\* comparison_df after the columns are renamed and Difference and Status
\* are computed
ComparisonRow(m) ==
    LET actual   == FillNa(m.amount_x)
        budgeted == FillNa(m.amount_y)
    IN  [Category   |-> m.category,
         Actual     |-> actual,
         Budgeted   |-> budgeted,
         Difference |-> budgeted - actual,
         Status     |-> StatusOf(budgeted - actual)]

create_budget_comparison_chart(df, budget) ==
    IF ~HasColumn(df, "amount") THEN Raised("budget", "KeyError")
    ELSE LET expenses_df == ExpensesOf(df) IN
         IF ~HasColumn(expenses_df, "category")
         THEN Raised("budget", "KeyError")
         ELSE IF ~HasColumn(budget, "category")
         THEN Raised("budget", "KeyError")
         ELSE IF ~HasColumn(budget, "amount")
         THEN Raised("budget", "ValueError")
         ELSE LET merged == MergeOuter(GroupByCategory(expenses_df),
                                       budget.rows)
              IN  Figure("budget",
                         [i \in 1..Len(merged) |-> ComparisonRow(merged[i])])

---------------------------------------------------------------------------
(* create_savings_goal_progress *)

\* The quotient a / b * 100 as an exact fraction; a zero divisor raises.
PercentOf(a, b) ==
    IF b = 0 THEN [raised |-> "ZeroDivisionError", num |-> 0, den |-> 1]
    ELSE [raised |-> "none", num |-> a * 100, den |-> b]

\* min(100, q) for a fraction q with positive denominator
Min100(q) ==
    IF q.raised # "none" THEN q
    ELSE IF 100 * q.den < q.num THEN [raised |-> "none", num |-> 100, den |-> 1]
    ELSE q

\* Mutant: the guard admits a zero goal (savings_goal >= 0).
PercentageGuardNonNegative(savings_goal, current_savings) ==
    IF savings_goal >= 0 THEN Min100(PercentOf(current_savings, savings_goal))
    ELSE [raised |-> "none", num |-> 0, den |-> 1]

\* min(100, (current_savings / savings_goal) * 100) if savings_goal > 0 else 0
Percentage(savings_goal, current_savings) ==
    IF savings_goal > 0 THEN Min100(PercentOf(current_savings, savings_goal))
    ELSE [raised |-> "none", num |-> 0, den |-> 1]

\* The Indicator's fields; the gauge's step bounds are kept as multiples of
\* a quarter of the goal (0.5 * goal = 2 quarters, 0.75 * goal = 3 quarters).
create_savings_goal_progress(savings_goal, current_savings) ==
    LET percentage == Percentage(savings_goal, current_savings) IN
    IF percentage.raised # "none"
    THEN [fn |-> "gauge", args |-> <<savings_goal, current_savings>>,
          raised |-> percentage.raised, data |-> <<>>]
    ELSE [fn |-> "gauge", args |-> <<savings_goal, current_savings>>,
          raised |-> "none",
          data |-> [percentage     |-> [num |-> percentage.num,
                                        den |-> percentage.den],
                    value          |-> current_savings,
                    reference      |-> savings_goal,
                    axis_range     |-> <<0, savings_goal>>,
                    step_quarters  |-> << <<0, 2 * savings_goal>>,
                                          <<2 * savings_goal, 3 * savings_goal>>,
                                          <<3 * savings_goal, 4 * savings_goal>> >>,
                    threshold      |-> savings_goal]]

---------------------------------------------------------------------------
(* Inputs *)

SeqsUpTo(S, n) == UNION {[1..k -> S] : k \in 0..n}

TransactionRows(columns, dates) ==
    { [c \in columns |->
          CASE c = "date" -> StrDate(d) [] c = "amount" -> a
            [] c = "category" -> k] :
      d \in dates, a \in Amounts, k \in Categories }

BudgetRows(columns) ==
    { [c \in columns |-> CASE c = "category" -> k [] c = "amount" -> a] :
      k \in Categories, a \in BudgetAmounts }

\* Frames a caller can hold: any subset of the columns, up to MaxRows rows.
TransactionFrames(dates) ==
    UNION { { [columns |-> cs, rows |-> rs] :
              rs \in SeqsUpTo(TransactionRows(cs, dates), MaxRows) } :
            cs \in SUBSET TransactionColumns }

UniqueCategories(rows) ==
    \A i, j \in 1..Len(rows) :
        ("category" \in DOMAIN rows[i] /\ i # j)
            => rows[i].category # rows[j].category

BudgetFrames ==
    UNION { { [columns |-> cs, rows |-> rs] :
              rs \in {q \in SeqsUpTo(BudgetRows(cs), MaxBudgetRows) :
                         UniqueCategories(q)} } :
            cs \in SUBSET BudgetColumns }

ScenarioBudget ==
    [columns |-> BudgetColumns,
     rows    |-> << [category |-> "Food", amount |-> 100] >>]

EmptyBudget == [columns |-> BudgetColumns, rows |-> <<>>]

NoFigure == [fn |-> "none", args |-> <<>>, raised |-> "none", data |-> <<>>]

Goals == {250 * g : g \in (0 - MaxGoalUnits)..MaxGoalUnits}

Savings == {250 * c : c \in (0 - MaxSavingsUnits)..MaxSavingsUnits}

---------------------------------------------------------------------------
(* Specifications *)

PieCall ==
    /\ fig' = create_spending_pie_chart(transactions_df)
    /\ UNCHANGED <<transactions_df, budget_df>>

TrendCall ==
    /\ transactions_df' = create_spending_trend_chart(transactions_df).frame
    /\ fig' = create_spending_trend_chart(transactions_df).fig
    /\ UNCHANGED budget_df

BudgetCall ==
    /\ fig' = create_budget_comparison_chart(transactions_df, budget_df)
    /\ UNCHANGED <<transactions_df, budget_df>>

GaugeCall(goals, savings) ==
    \E savings_goal \in goals, current_savings \in savings :
        /\ fig' = create_savings_goal_progress(savings_goal, current_savings)
        /\ UNCHANGED <<transactions_df, budget_df>>

\* All four functions on one caller's data.
Init ==
    /\ transactions_df \in TransactionFrames(DateTexts)
    /\ budget_df = ScenarioBudget
    /\ fig = NoFigure

Next ==
    \/ PieCall
    \/ TrendCall
    \/ BudgetCall
    \/ GaugeCall({1000}, {1500})

Spec == Init /\ [][Next]_vars

\* The budget comparator over every budget table.
InitBudget ==
    /\ transactions_df \in
          TransactionFrames({<<"2","0","2","4","-","0","1","-","0","5">>})
    /\ budget_df \in BudgetFrames
    /\ fig = NoFigure

NextBudget == BudgetCall

SpecBudget == InitBudget /\ [][NextBudget]_vars

\* The goal gauge over every pair of scalars.
InitGauge ==
    /\ transactions_df = [columns |-> TransactionColumns, rows |-> <<>>]
    /\ budget_df = EmptyBudget
    /\ fig = NoFigure

NextGauge == GaugeCall(Goals, Savings)

SpecGauge == InitGauge /\ [][NextGauge]_vars

---------------------------------------------------------------------------
(* Reference quantities, computed from the caller's rows alone *)

IsExpense(r) == r.amount < 0

IsIncome(r) == r.amount > 0

\* Sum of |amount| over the rows of the sequence that satisfy Sel.
RECURSIVE Magnitudes(_, _)
Magnitudes(rows, sel) ==
    IF rows = <<>> THEN 0
    ELSE (IF sel[Head(rows)] THEN Abs(Head(rows).amount) ELSE 0)
         + Magnitudes(Tail(rows), sel)

ExpenseTotal(rows) == Magnitudes(rows, [r \in Range(rows) |-> IsExpense(r)])

ExpenseTotalOf(rows, c) ==
    Magnitudes(rows, [r \in Range(rows) |-> IsExpense(r) /\ r.category = c])

ExpenseCategories(rows) == {r.category : r \in {q \in Range(rows) : IsExpense(q)}}

FullTransactions == TransactionColumns \subseteq transactions_df.columns

PieDrawn == fig.fn = "pie" /\ fig.raised = "none"

TrendDrawn == fig.fn = "trend" /\ fig.raised = "none"

BudgetDrawn == fig.fn = "budget" /\ fig.raised = "none"

GaugeDrawn == fig.fn = "gauge" /\ fig.raised = "none"

---------------------------------------------------------------------------
(* Claims *)

\* C1: the pie chart's slice values sum to the sum of the absolute values of
\* all transactions with amount < 0: the aggregation drops no expense row.
C1_PieSumEqualsExpenseTotal ==
    PieDrawn =>
        SumSeq([i \in 1..Len(fig.data) |-> fig.data[i].amount])
            = ExpenseTotal(transactions_df.rows)

C1_Witness ==
    /\ PieDrawn
    /\ Len(fig.data) = 1
    /\ fig.data[1] = [category |-> "Food", amount |-> 80]

\* C2: the gauge's percentage lies in [0, 100] for every savings_goal and
\* current_savings (and is exactly 100 for goal 1000, savings 1500).
C2_PercentageInRange ==
    GaugeDrawn =>
        /\ 0 <= fig.data.percentage.num
        /\ fig.data.percentage.num <= 100 * fig.data.percentage.den
        /\ (fig.args = <<1000, 1500>> =>
               fig.data.percentage.num = 100 * fig.data.percentage.den)

\* C3: no chart function mutates its caller's input: every call leaves the
\* transaction and budget collections with the same columns and values.
C3_InputsNotMutated ==
    [][transactions_df' = transactions_df /\ budget_df' = budget_df]_vars

\* C4: the comparison table has exactly one row per category of the union of
\* the expense categories and the budget categories; a category present on
\* one side only has the other side's value equal to zero.
C4_OuterJoinRows ==
    BudgetDrawn =>
        LET actual == ExpenseCategories(transactions_df.rows)
            budget == {r.category : r \in Range(budget_df.rows)}
        IN  /\ Len(fig.data) = Cardinality(actual \cup budget)
            /\ {row.Category : row \in Range(fig.data)} = actual \cup budget
            /\ \A row \in Range(fig.data) :
                  /\ row.Category \notin actual => row.Actual = 0
                  /\ row.Category \notin budget => row.Budgeted = 0

C4_Witness ==
    /\ BudgetDrawn
    /\ Len(fig.data) = 2
    /\ ExpenseCategories(transactions_df.rows) = {"Food"}
    /\ {r.category : r \in Range(budget_df.rows)} = {"Rent"}

\* C5: a transaction with amount >= 0 contributes nothing to the expense
\* aggregation of the pie chart and of the budget comparison: every total is
\* the sum over the rows with amount < 0 alone, and a category without such
\* a row has no slice and no Actual value.
C5_NonNegativeExcluded ==
    /\ PieDrawn =>
          \A i \in 1..Len(fig.data) :
              /\ fig.data[i].category \in ExpenseCategories(transactions_df.rows)
              /\ fig.data[i].amount
                    = ExpenseTotalOf(transactions_df.rows, fig.data[i].category)
    /\ BudgetDrawn =>
          \A i \in 1..Len(fig.data) :
              /\ fig.data[i].Actual
                    = ExpenseTotalOf(transactions_df.rows, fig.data[i].Category)
              /\ fig.data[i].Category \notin ExpenseCategories(transactions_df.rows)
                    => /\ fig.data[i].Actual = 0
                       /\ fig.data[i].Category
                             \in {r.category : r \in Range(budget_df.rows)}

C5_Witness ==
    /\ PieDrawn
    /\ Len(transactions_df.rows) = 2
    /\ \E i, j \in 1..2 :
          /\ transactions_df.rows[i].amount = 0
          /\ transactions_df.rows[i].category = "Rent"
          /\ transactions_df.rows[j].amount = 2000
          /\ transactions_df.rows[j].category = "Food"
    /\ fig.data = <<>>

\* C6: with savings_goal <= 0 the gauge call raises no division error: it
\* returns a chart and the percentage is 0.
C6_NonPositiveGoal ==
    (fig.fn = "gauge" /\ fig.args[1] <= 0) =>
        /\ fig.raised = "none"
        /\ fig.data.percentage.num = 0

C6_Witness ==
    /\ GaugeDrawn
    /\ fig.args = <<0, 1500>>
    /\ fig.data.percentage.num = 0

\* C7: calling a chart function twice in succession on the same input
\* objects yields the same outcome the second time as the first, the trend
\* chart included when its second call receives the frame as the first
\* call left it.
C7_Idempotent ==
    [][(fig'.fn = fig.fn /\ fig'.args = fig.args) => fig' = fig]_vars

C7_Witness ==
    /\ TrendDrawn
    /\ "month" \in transactions_df.columns
    /\ Len(fig.data.expenses) >= 1
    /\ Len(fig.data.income) >= 1
    /\ create_spending_trend_chart(transactions_df).fig = fig

\* "YYYY-MM" of a date cell, read off the text or the Timestamp.
YearMonthText(cell) ==
    IF cell.kind = "str" THEN SubSeq(cell.text, 1, 7)
    ELSE << DigitChar(cell.year \div 1000), DigitChar((cell.year \div 100) % 10),
            DigitChar((cell.year \div 10) % 10), DigitChar(cell.year % 10),
            "-", DigitChar(cell.month \div 10), DigitChar(cell.month % 10) >>

IncomeIn(rows, m) ==
    Magnitudes(rows, [r \in Range(rows) |->
                         IsIncome(r) /\ YearMonthText(r.date) = m])

ExpenseIn(rows, m, c) ==
    Magnitudes(rows, [r \in Range(rows) |->
                         /\ IsExpense(r)
                         /\ r.category = c
                         /\ YearMonthText(r.date) = m])

\* C8: the income series has exactly one point for every month holding a
\* transaction with amount > 0, and each category's expense series exactly
\* one point for every month in which the category has a transaction with
\* amount < 0 and none for any other month; each point's value is the sum of
\* the magnitudes in its bucket.
C8_TrendSeries ==
    TrendDrawn =>
        LET rows == transactions_df.rows
            incomeMonths ==
                {YearMonthText(r.date) : r \in {q \in Range(rows) : IsIncome(q)}}
            monthsOf(c) ==
                {YearMonthText(r.date) :
                    r \in {q \in Range(rows) : IsExpense(q) /\ q.category = c}}
        IN  /\ Len(fig.data.income) = Cardinality(incomeMonths)
            /\ {p.x : p \in Range(fig.data.income)} = incomeMonths
            /\ \A p \in Range(fig.data.income) : p.y = IncomeIn(rows, p.x)
            /\ Len(fig.data.expenses) = Cardinality(ExpenseCategories(rows))
            /\ {t.name : t \in Range(fig.data.expenses)} = ExpenseCategories(rows)
            /\ \A t \in Range(fig.data.expenses) :
                  /\ Len(t.points) = Cardinality(monthsOf(t.name))
                  /\ {p.x : p \in Range(t.points)} = monthsOf(t.name)
                  /\ \A p \in Range(t.points) :
                        p.y = ExpenseIn(rows, p.x, t.name)

C8_Witness ==
    /\ TrendDrawn
    /\ fig.data.income
          = << [x |-> <<"2","0","2","4","-","0","2">>, y |-> 2000] >>
    /\ fig.data.expenses
          = << [name   |-> "Food",
                points |-> << [x |-> <<"2","0","2","4","-","0","1">>,
                               y |-> 50] >>] >>

\* C9: when a required column is missing (amount or category for the pie
\* chart and the budget comparison; amount, category or date for the trend
\* chart) the call fails with an error and returns no chart, for every
\* collection, an empty one included.
C9_MissingColumnFails ==
    /\ (fig.fn \in {"pie", "budget"}
          /\ ~({"amount", "category"} \subseteq transactions_df.columns))
        => fig.raised # "none"
    /\ (fig.fn = "trend" /\ ~FullTransactions) => fig.raised # "none"

C9_Witness ==
    /\ fig.fn = "pie"
    /\ fig.raised = "KeyError"
    /\ transactions_df.columns = {"date", "amount"}
    /\ transactions_df.rows = <<>>

RECURSIVE BudgetedIn(_, _)
BudgetedIn(rows, c) ==
    IF rows = <<>> THEN 0
    ELSE (IF Head(rows).category = c THEN Head(rows).amount ELSE 0)
         + BudgetedIn(Tail(rows), c)

BudgetOf(c) == BudgetedIn(budget_df.rows, c)

\* C10: in every row of the comparison table Difference = Budgeted - Actual
\* and Status is "Under Budget" exactly when Difference >= 0 and "Over
\* Budget" otherwise, Actual being the category's summed expense magnitude
\* and Budgeted its budget amount.
C10_DifferenceAndStatus ==
    BudgetDrawn =>
        \A row \in Range(fig.data) :
            /\ row.Actual = ExpenseTotalOf(transactions_df.rows, row.Category)
            /\ row.Budgeted = BudgetOf(row.Category)
            /\ row.Difference = row.Budgeted - row.Actual
            /\ row.Status = "Under Budget" <=> row.Difference >= 0
            /\ row.Status = "Over Budget" <=> row.Difference < 0

C10_Witness ==
    /\ BudgetDrawn
    /\ fig.data = << [Category |-> "Food", Actual |-> 80, Budgeted |-> 100,
                      Difference |-> 20, Status |-> "Under Budget"] >>

====
